---- MODULE Spec2Model ----
(***************************************************************************)
(* py_cupom: base-32 alphanumeric ids for integers, with an optional Luhn  *)
(* mod N check digit (src/py_cupom/py_cupom.py).                           *)
(*                                                                         *)
(* Python strings are modelled as sequences of one-character strings, bit  *)
(* strings ('00101') as sequences of 0/1.  A call either returns a value   *)
(* or raises; both are Result records.                                     *)
(***************************************************************************)
EXTENDS Integers, Sequences, FiniteSets, TLC

VARIABLES py, pc, fn, arg, ret, prev

vars == <<py, pc, fn, arg, ret, prev>>

\* ---------------------------------------------------------------- bounds
\* encode is handed every integer up to MaxN, and the values of Boundary
MaxN == 40
\* largest digit count handed to encode (0 stands for None)
MaxLen == 4
\* longest string over SampleChars handed to decode, digit and check
MaxStr == 3
\* longest run of zero-value symbols prepended by a caller
MaxPad == 3

\* ---------------------------------------------------------------- tables
FW_MAP ==
       (<<0,0,0,0,0>> :> "A")
    @@ (<<0,0,0,0,1>> :> "1")
    @@ (<<0,0,0,1,0>> :> "2")
    @@ (<<0,0,0,1,1>> :> "3")
    @@ (<<0,0,1,0,0>> :> "4")
    @@ (<<0,0,1,0,1>> :> "5")
    @@ (<<0,0,1,1,0>> :> "6")
    @@ (<<0,0,1,1,1>> :> "7")
    @@ (<<0,1,0,0,0>> :> "8")
    @@ (<<0,1,0,0,1>> :> "9")
    @@ (<<0,1,0,1,0>> :> "0")
    @@ (<<0,1,0,1,1>> :> "B")
    @@ (<<0,1,1,0,0>> :> "C")
    @@ (<<0,1,1,0,1>> :> "D")
    @@ (<<0,1,1,1,0>> :> "E")
    @@ (<<0,1,1,1,1>> :> "F")
    @@ (<<1,0,0,0,0>> :> "G")
    @@ (<<1,0,0,0,1>> :> "H")
    @@ (<<1,0,0,1,0>> :> "J")
    @@ (<<1,0,0,1,1>> :> "K")
    @@ (<<1,0,1,0,0>> :> "M")
    @@ (<<1,0,1,0,1>> :> "N")
    @@ (<<1,0,1,1,0>> :> "P")
    @@ (<<1,0,1,1,1>> :> "Q")
    @@ (<<1,1,0,0,0>> :> "R")
    @@ (<<1,1,0,0,1>> :> "S")
    @@ (<<1,1,0,1,0>> :> "T")
    @@ (<<1,1,0,1,1>> :> "V")
    @@ (<<1,1,1,0,0>> :> "W")
    @@ (<<1,1,1,0,1>> :> "X")
    @@ (<<1,1,1,1,0>> :> "Y")
    @@ (<<1,1,1,1,1>> :> "Z")

BW_MAP ==
       ("A" :> <<0,0,0,0,0>>)
    @@ ("a" :> <<0,0,0,0,0>>)
    @@ ("1" :> <<0,0,0,0,1>>)
    @@ ("i" :> <<0,0,0,0,1>>)
    @@ ("I" :> <<0,0,0,0,1>>)
    @@ ("l" :> <<0,0,0,0,1>>)
    @@ ("L" :> <<0,0,0,0,1>>)
    @@ ("2" :> <<0,0,0,1,0>>)
    @@ ("3" :> <<0,0,0,1,1>>)
    @@ ("4" :> <<0,0,1,0,0>>)
    @@ ("5" :> <<0,0,1,0,1>>)
    @@ ("6" :> <<0,0,1,1,0>>)
    @@ ("7" :> <<0,0,1,1,1>>)
    @@ ("8" :> <<0,1,0,0,0>>)
    @@ ("9" :> <<0,1,0,0,1>>)
    @@ ("0" :> <<0,1,0,1,0>>)
    @@ ("O" :> <<0,1,0,1,0>>)
    @@ ("o" :> <<0,1,0,1,0>>)
    @@ ("B" :> <<0,1,0,1,1>>)
    @@ ("b" :> <<0,1,0,1,1>>)
    @@ ("C" :> <<0,1,1,0,0>>)
    @@ ("c" :> <<0,1,1,0,0>>)
    @@ ("D" :> <<0,1,1,0,1>>)
    @@ ("d" :> <<0,1,1,0,1>>)
    @@ ("E" :> <<0,1,1,1,0>>)
    @@ ("e" :> <<0,1,1,1,0>>)
    @@ ("F" :> <<0,1,1,1,1>>)
    @@ ("f" :> <<0,1,1,1,1>>)
    @@ ("G" :> <<1,0,0,0,0>>)
    @@ ("g" :> <<1,0,0,0,0>>)
    @@ ("H" :> <<1,0,0,0,1>>)
    @@ ("h" :> <<1,0,0,0,1>>)
    @@ ("J" :> <<1,0,0,1,0>>)
    @@ ("j" :> <<1,0,0,1,0>>)
    @@ ("K" :> <<1,0,0,1,1>>)
    @@ ("k" :> <<1,0,0,1,1>>)
    @@ ("M" :> <<1,0,1,0,0>>)
    @@ ("m" :> <<1,0,1,0,0>>)
    @@ ("N" :> <<1,0,1,0,1>>)
    @@ ("n" :> <<1,0,1,0,1>>)
    @@ ("P" :> <<1,0,1,1,0>>)
    @@ ("p" :> <<1,0,1,1,0>>)
    @@ ("Q" :> <<1,0,1,1,1>>)
    @@ ("q" :> <<1,0,1,1,1>>)
    @@ ("R" :> <<1,1,0,0,0>>)
    @@ ("r" :> <<1,1,0,0,0>>)
    @@ ("S" :> <<1,1,0,0,1>>)
    @@ ("s" :> <<1,1,0,0,1>>)
    @@ ("T" :> <<1,1,0,1,0>>)
    @@ ("t" :> <<1,1,0,1,0>>)
    @@ ("V" :> <<1,1,0,1,1>>)
    @@ ("v" :> <<1,1,0,1,1>>)
    @@ ("W" :> <<1,1,1,0,0>>)
    @@ ("w" :> <<1,1,1,0,0>>)
    @@ ("X" :> <<1,1,1,0,1>>)
    @@ ("x" :> <<1,1,1,0,1>>)
    @@ ("Y" :> <<1,1,1,1,0>>)
    @@ ("y" :> <<1,1,1,1,0>>)
    @@ ("Z" :> <<1,1,1,1,1>>)
    @@ ("z" :> <<1,1,1,1,1>>)

\* n = len(FW_MAP)
N == Cardinality(DOMAIN FW_MAP)

\* ---------------------------------------------------------------- results
NoArg == [n |-> 0, length |-> 0, check_digit |-> FALSE, s |-> <<>>]
None == [kind |-> "none", exc |-> "", i |-> 0, s |-> <<>>, b |-> FALSE]
RetInt(v) == [None EXCEPT !.kind = "int", !.i = v]
RetStr(v) == [None EXCEPT !.kind = "str", !.s = v]
RetBool(v) == [None EXCEPT !.kind = "bool", !.b = v]
Raise(e) == [None EXCEPT !.kind = "raise", !.exc = e]

\* ------------------------------------------------------- Python builtins
Abs(n) == IF n < 0 THEN -n ELSE n

\* bin(n)[2:] for n >= 0
RECURSIVE Bin(_)
Bin(n) == IF n < 2 THEN <<n>> ELSE Append(Bin(n \div 2), n % 2)

\* str.ljust in place of str.rjust: the zero bits go to the right
RECURSIVE LJust(_, _)
LJust(bits, width) == IF Len(bits) >= width THEN bits ELSE LJust(Append(bits, 0), width)

\* str.rjust(width, '0'): never truncates
RECURSIVE RJust(_, _)
RJust(bits, width) == IF Len(bits) >= width THEN bits ELSE RJust(<<0>> \o bits, width)

\* a parse that takes the first bit as the least significant one
RECURSIVE ParseBinLSB(_)
ParseBinLSB(bits) ==
    IF bits = <<>> THEN 0 ELSE bits[1] + 2 * ParseBinLSB(Tail(bits))

\* int(bits, 2) for a non-empty bit string
RECURSIVE ParseBin(_)
ParseBin(bits) ==
    IF bits = <<>> THEN 0
    ELSE 2 * ParseBin(SubSeq(bits, 1, Len(bits) - 1)) + bits[Len(bits)]

\* ''.join(list of bit strings)
RECURSIVE Join(_)
Join(groups) == IF groups = <<>> THEN <<>> ELSE Head(groups) \o Join(Tail(groups))

\* int(math.ceil(math.log(n, 32))) for n >= 1: the least L with 32^L >= n
RECURSIVE CeilLogFrom(_, _)
CeilLogFrom(n, L) == IF 32 ^ L >= n THEN L ELSE CeilLogFrom(n, L + 1)
CeilLog32(n) == CeilLogFrom(n, 0)

\* Numbers of the checksum arithmetic, kept exactly in units of 1/32: the
\* only non-integers that arise are quotients by n = 32.
PyInt(i) == [isfloat |-> FALSE, v32 |-> 32 * i]
PyAdd(x, y) == [isfloat |-> x.isfloat \/ y.isfloat, v32 |-> x.v32 + y.v32]
PyMod(x, m) == [isfloat |-> x.isfloat, v32 |-> x.v32 % (32 * m)]
PySub(i, x) == [isfloat |-> x.isfloat, v32 |-> 32 * i - x.v32]

\* a / m on two ints: floor division on Python 2, true division on Python 3
TrueDiv(a, m) ==
    IF py = 2 THEN PyInt(a \div m)
    ELSE [isfloat |-> TRUE, v32 |-> (32 * a) \div m]

\* ---------------------------------------------------------------- digit
\* a fold that drops the quotient: addend = addend % n
FoldNoCarry(addend, m) == PyInt(addend % m)

\* addend = (addend / n) + (addend % n)
FoldAddend(addend, m) == PyAdd(TrueDiv(addend, m), PyInt(addend % m))

\* factor = 1 if factor == 2 else 2
NextFactor(factor) == IF factor = 2 THEN 1 ELSE 2

\* the loop over code[::-1] shared by digit and check: rest is the part of
\* code not yet visited, its last symbol is visited next
RECURSIVE LuhnLoop(_, _, _)
LuhnLoop(rest, factor, total) ==
    IF rest = <<>> THEN total
    ELSE LET l == rest[Len(rest)]
             code_point == ParseBin(BW_MAP[l])
             addend == factor * code_point
         IN  LuhnLoop(SubSeq(rest, 1, Len(rest) - 1), NextFactor(factor),
                      PyAdd(total, FoldAddend(addend, N)))

\* a table that lacks the alias 'l'
HasUnknownNoEll(code) == \E i \in 1..Len(code) : code[i] \notin DOMAIN BW_MAP \ {"l"}

\* BW_MAP[l] raises KeyError for a symbol that is no key of BW_MAP
HasUnknown(code) == \E i \in 1..Len(code) : code[i] \notin DOMAIN BW_MAP

digit(code) ==
    IF HasUnknown(code) THEN Raise("KeyError")
    ELSE LET total == LuhnLoop(code, 2, PyInt(0))
             remainder == PyMod(total, N)
             check_code_point == PyMod(PySub(N, remainder), N)
         IN  IF check_code_point.isfloat THEN Raise("TypeError")
             ELSE RetStr(<<FW_MAP[RJust(Bin(check_code_point.v32 \div 32), 5)]>>)

\* ---------------------------------------------------------------- check
check(code) ==
    IF HasUnknown(code) THEN Raise("KeyError")
    ELSE LET total == LuhnLoop(code, 1, PyInt(0))
             remainder == PyMod(total, N)
         IN  RetBool(remainder.v32 = 0)

\* --------------------------------------------------------------- encode
\* the overflow test of the length branch
Overflows(n, length) == n > 32 ^ length

\* lines 164-167, n already made non-negative
EncodeBody(n, length, check_digit) ==
    LET padded_bin == RJust(Bin(n), 5 * length)
        code == [i \in 1..length |-> FW_MAP[SubSeq(padded_bin, 5 * (i - 1) + 1, 5 * (i - 1) + 5)]]
    IN  IF check_digit
        THEN LET d == digit(code)
             IN  IF d.kind = "raise" THEN d ELSE RetStr(code \o d.s)
        ELSE RetStr(code)

\* length = 0 stands for every falsy length (None, 0)
encode(n0, length, check_digit) ==
    LET n == Abs(n0)
    IN  IF length # 0
        THEN IF Overflows(n, length) THEN Raise("OverflowError")
             ELSE EncodeBody(n, length, check_digit)
        ELSE IF n = 0 THEN Raise("ValueError")
             ELSE EncodeBody(n, CeilLog32(n), check_digit)

\* --------------------------------------------------------------- decode
\* a table that takes the letter O for the zero group instead of the digit 0
DecodeBodyLetterO(s) ==
    IF HasUnknown(s) THEN Raise("KeyError")
    ELSE IF s = <<>> THEN Raise("ValueError")
    ELSE RetInt(ParseBin(Join([i \in 1..Len(s) |->
             [BW_MAP EXCEPT !["O"] = <<0,0,0,0,0>>][s[i]]])))

\* int(''.join([BW_MAP[l] for l in str(s)]), 2)
DecodeBody(s) ==
    IF HasUnknown(s) THEN Raise("KeyError")
    ELSE IF s = <<>> THEN Raise("ValueError")
    ELSE RetInt(ParseBin(Join([i \in 1..Len(s) |-> BW_MAP[s[i]]])))

decode(s, check_digit) ==
    IF check_digit
    THEN LET c == check(s)
         IN  IF c.kind = "raise" THEN c
             ELSE IF ~c.b THEN Raise("ChecksumError")
             ELSE DecodeBody(SubSeq(s, 1, Len(s) - 1))
    ELSE DecodeBody(s)

\* --------------------------------------------------------------- inputs
Upper == <<"A","B","C","D","E","F","G","H","I","J","K","L","M",
           "N","O","P","Q","R","S","T","U","V","W","X","Y","Z">>
Lower == <<"a","b","c","d","e","f","g","h","i","j","k","l","m",
           "n","o","p","q","r","s","t","u","v","w","x","y","z">>
Letters == {Upper[k] : k \in 1..26} \cup {Lower[k] : k \in 1..26}
Digits == {"0","1","2","3","4","5","6","7","8","9"}

\* the characters a caller's string is made of; decoded values stay below
\* 2^31, so the ten-symbol code of test_py_cupom.py is not among Vectors
Chars == Letters \cup Digits \cup {"$", "-", " "}
SampleChars == {"A", "a", "1", "L", "G", "Z", "U"}

Vectors ==
    { <<"A","1","6","J">>, <<"a","1","6","j">>, <<"A","1","6","$">>,
      <<"A","A","A","1">>, <<"A","1","6","J","Y">> }

Strings ==
    {<<>>} \cup {<<c>> : c \in Chars} \cup Vectors
           \cup UNION {[1..k -> SampleChars] : k \in 1..MaxStr}

\* the values around each power of 32, and the value of test_py_cupom.py
Boundary == UNION {{32 ^ d - 1, 32 ^ d, 32 ^ d + 1} : d \in 1..MaxLen} \cup {1234}
NValues == (0..MaxN) \cup Boundary \cup {-1, -32, -1234}
Lengths == 0..MaxLen
Pads == UNION {[1..k -> {"A", "a"}] : k \in 1..MaxPad}

NoPrev == [via |-> "none", fn |-> "none", arg |-> NoArg, ret |-> None]
Here(via) == [via |-> via, fn |-> fn, arg |-> arg, ret |-> ret]

\* s with its i-th symbol replaced by x
Subst(s, i, x) == [s EXCEPT ![i] = x]

\* ----------------------------------------------------------------- state
Init ==
    /\ py \in {2, 3}
    /\ pc = "idle"
    /\ fn = "none"
    /\ arg = NoArg
    /\ ret = None
    /\ prev = NoPrev

Call(f, a, r, p) ==
    /\ fn' = f
    /\ arg' = a
    /\ ret' = r
    /\ prev' = p
    /\ pc' = "returned"
    /\ UNCHANGED py

\* ------------------------------------------------- calls from the caller
Encode(n, length, check_digit) ==
    /\ pc = "idle"
    /\ Call("encode", [NoArg EXCEPT !.n = n, !.length = length, !.check_digit = check_digit],
            encode(n, length, check_digit), NoPrev)

Decode(s, check_digit) ==
    /\ pc = "idle"
    /\ Call("decode", [NoArg EXCEPT !.s = s, !.check_digit = check_digit],
            decode(s, check_digit), NoPrev)

Digit(s) ==
    /\ pc = "idle"
    /\ Call("digit", [NoArg EXCEPT !.s = s], digit(s), NoPrev)

Check(s) ==
    /\ pc = "idle"
    /\ Call("check", [NoArg EXCEPT !.s = s], check(s), NoPrev)

\* ------------------------------- calls on the result of the previous call
\* decode(encode(n, length, check_digit), check_digit)
DecodeEncoded ==
    /\ pc = "returned" /\ fn = "encode" /\ ret.kind = "str"
    /\ Call("decode", [NoArg EXCEPT !.s = ret.s, !.check_digit = arg.check_digit],
            decode(ret.s, arg.check_digit), Here("roundtrip"))

\* check(encode(n, length, True))
CheckEncoded ==
    /\ pc = "returned" /\ fn = "encode" /\ ret.kind = "str" /\ arg.check_digit
    /\ Call("check", [NoArg EXCEPT !.s = ret.s], check(ret.s), Here("validate"))

\* digit(encode(n, length))
DigitEncoded ==
    /\ pc = "returned" /\ fn = "encode" /\ ret.kind = "str" /\ ~arg.check_digit
    /\ Call("digit", [NoArg EXCEPT !.s = ret.s], digit(ret.s), Here("digit_of"))

\* encode(n, d') for the least d' >= 1 with n < 32^d', after encode(n, d)
RECURSIVE MinDigitsFrom(_, _)
MinDigitsFrom(n, d) == IF n < 32 ^ d THEN d ELSE MinDigitsFrom(n, d + 1)
MinDigits(n) == MinDigitsFrom(n, 1)

EncodeMinimal ==
    /\ pc = "returned" /\ fn = "encode" /\ ret.kind = "str" /\ arg.length >= 1
    /\ LET d == MinDigits(Abs(arg.n))
       IN  Call("encode", [arg EXCEPT !.length = d],
                encode(arg.n, d, arg.check_digit), Here("minimal"))

\* the symbols a reader or typist may put for x: its other-case form, and
\* the look-alikes of 1 and 0
SwapCase(x) ==
    IF \E k \in 1..26 : Upper[k] = x THEN {Lower[k] : k \in {j \in 1..26 : Upper[j] = x}}
    ELSE IF \E k \in 1..26 : Lower[k] = x THEN {Upper[k] : k \in {j \in 1..26 : Lower[j] = x}}
    ELSE {}
LookAlikes(x) ==
    IF x = "1" THEN {"I", "i", "L", "l"} ELSE IF x = "0" THEN {"O", "o"} ELSE {}

\* decode of an accepted code with one symbol written differently (the code
\* is rewritten once: a rewritten code is not rewritten again)
DecodeAlias(i, x) ==
    /\ pc = "returned" /\ fn = "decode" /\ ret.kind = "int"
    /\ prev.via \notin {"alias", "pad"}
    /\ i \in 1..Len(arg.s)
    /\ x \in SwapCase(arg.s[i]) \cup LookAlikes(arg.s[i])
    /\ Call("decode", [arg EXCEPT !.s = Subst(arg.s, i, x)],
            decode(Subst(arg.s, i, x), arg.check_digit), Here("alias"))

\* decode of an accepted code with zero-value symbols put in front
DecodePadded(pad) ==
    /\ pc = "returned" /\ fn = "decode" /\ ret.kind = "int"
    /\ prev.via \notin {"alias", "pad"}
    /\ Call("decode", [arg EXCEPT !.s = pad \o arg.s],
            decode(pad \o arg.s, arg.check_digit), Here("pad"))

\* the code with its check symbol that the last call produced, if any
HasChecksummed ==
    \/ fn = "encode" /\ arg.check_digit /\ ret.kind = "str"
    \/ fn = "digit" /\ ret.kind = "str"
Checksummed == IF fn = "encode" THEN ret.s ELSE arg.s \o ret.s

\* check of a code + digit after one symbol was replaced by a symbol of
\* another value
CheckCorrupted(i, x) ==
    /\ pc = "returned" /\ HasChecksummed
    /\ i \in 1..Len(Checksummed)
    /\ BW_MAP[x] # BW_MAP[Checksummed[i]]
    /\ Call("check", [NoArg EXCEPT !.s = Subst(Checksummed, i, x)],
            check(Subst(Checksummed, i, x)), Here("corrupt"))

\* check(c + x) after digit(c), for a code c over the accepted symbols
CheckAppended(x) ==
    /\ pc = "returned" /\ fn = "digit" /\ ~HasUnknown(arg.s)
    /\ Call("check", [NoArg EXCEPT !.s = Append(arg.s, x)],
            check(Append(arg.s, x)), Here("append"))

\* the caller is done with the result
Return ==
    /\ pc = "returned"
    /\ pc' = "idle"
    /\ fn' = "none"
    /\ arg' = NoArg
    /\ ret' = None
    /\ prev' = NoPrev
    /\ UNCHANGED py

\* the quantifiers over the inputs are opened only where the call can happen
Next ==
    \/ pc = "idle" /\ \E n \in NValues, length \in Lengths, cd \in BOOLEAN : Encode(n, length, cd)
    \/ pc = "idle" /\ \E s \in Strings, cd \in BOOLEAN : Decode(s, cd)
    \/ pc = "idle" /\ \E s \in Strings : Digit(s)
    \/ pc = "idle" /\ \E s \in Strings : Check(s)
    \/ DecodeEncoded
    \/ CheckEncoded
    \/ DigitEncoded
    \/ EncodeMinimal
    \/ fn = "decode" /\ \E i \in 1..Len(arg.s), x \in Letters : DecodeAlias(i, x)
    \/ fn = "decode" /\ \E pad \in Pads : DecodePadded(pad)
    \/ HasChecksummed /\ \E i \in 1..Len(Checksummed), x \in DOMAIN BW_MAP : CheckCorrupted(i, x)
    \/ fn = "digit" /\ \E x \in DOMAIN BW_MAP : CheckAppended(x)
    \/ Return

Spec == Init /\ [][Next]_vars

\* ---------------------------------------------------------------- claims
A16J == <<"A","1","6","J">>
Accepted(s) == \A i \in 1..Len(s) : s[i] \in DOMAIN BW_MAP
Value(x) == ParseBin(BW_MAP[x])
CanonicalSymbols == {FW_MAP[b] : b \in DOMAIN FW_MAP}
Fits(n, d) == d >= 1 /\ 0 <= n /\ n < 32 ^ d

\* C1: for 0 <= v < 32^d and d >= 1, encode(v, d) is the d-symbol base-32
\* rendering of v under FW_MAP, most-significant digit first, and
\* decode(encode(v, d)) = v; encode(1234, 4) = "A16J", decode("A16J") = 1234.
C1_RoundTrip ==
    /\ (fn = "encode" /\ ~arg.check_digit /\ Fits(arg.n, arg.length)) =>
          /\ ret.kind = "str"
          /\ Len(ret.s) = arg.length
          /\ \A i \in 1..arg.length :
                /\ ret.s[i] \in CanonicalSymbols
                /\ Value(ret.s[i]) = (arg.n \div 32 ^ (arg.length - i)) % 32
    /\ (fn = "decode" /\ prev.via = "roundtrip" /\ ~prev.arg.check_digit
          /\ Fits(prev.arg.n, prev.arg.length)) => ret = RetInt(prev.arg.n)
    /\ (fn = "encode" /\ ~arg.check_digit /\ arg.n = 1234 /\ arg.length = 4) =>
          ret = RetStr(A16J)
    /\ (fn = "decode" /\ ~arg.check_digit /\ arg.s = A16J) => ret = RetInt(1234)

C1_Witness ==
    /\ fn = "decode" /\ prev.via = "roundtrip" /\ ~prev.arg.check_digit
    /\ prev.arg.n = 1234 /\ prev.arg.length = 4
    /\ arg.s = A16J /\ ret = RetInt(1234)

\* C2: for d >= 1, encode(v, d) raises OverflowError for every v >= 32^d
\* and returns a code for every 0 <= v < 32^d.
C2_OverflowBoundary ==
    (fn = "encode" /\ ~arg.check_digit /\ arg.length >= 1 /\ arg.n >= 0) =>
        IF arg.n >= 32 ^ arg.length THEN ret = Raise("OverflowError")
        ELSE ret.kind = "str"

\* C3: for 0 <= v < 32^d and d >= 1, encode(v, d, True) returns a code c,
\* check(c) is true and decode(c, True) = v.
C3_ChecksumRoundTrip ==
    /\ (fn = "encode" /\ arg.check_digit /\ Fits(arg.n, arg.length)) =>
          ret.kind = "str" /\ Len(ret.s) = arg.length + 1
    /\ (fn = "check" /\ prev.via = "validate" /\ Fits(prev.arg.n, prev.arg.length)) =>
          ret = RetBool(TRUE)
    /\ (fn = "decode" /\ prev.via = "roundtrip" /\ prev.arg.check_digit
          /\ Fits(prev.arg.n, prev.arg.length)) => ret = RetInt(prev.arg.n)

\* C4 as stated: decode without check digit succeeds on every non-empty
\* string of letters A-Z, a-z and digits 0-9, and raises KeyError (the
\* invalid-symbol error) on every string with a character outside that set.
C4_AllLettersAccepted ==
    (fn = "decode" /\ ~arg.check_digit /\ arg.s # <<>>) =>
        IF \A i \in 1..Len(arg.s) : arg.s[i] \in Letters \cup Digits
        THEN ret.kind = "int" ELSE ret = Raise("KeyError")

\* C4 amended: decode without check digit succeeds on every non-empty string
\* of the letters other than U and u, in either case, and the digits 0-9,
\* and raises KeyError on every string with a character outside that set
\* (U and u included).
C4_AcceptedAlphabet ==
    (fn = "decode" /\ ~arg.check_digit /\ arg.s # <<>>) =>
        IF \A i \in 1..Len(arg.s) : arg.s[i] \in (Letters \ {"U", "u"}) \cup Digits
        THEN ret.kind = "int" ELSE ret = Raise("KeyError")

C4_Witness ==
    /\ fn = "decode" /\ ~arg.check_digit
    /\ arg.s = <<"U">> /\ ret = Raise("KeyError")

\* C5: when digit(c) returns the check symbol s of a code c over the
\* accepted alphabet, replacing one symbol of c + s by a symbol of another
\* 5-bit value makes check return false.
C5_SingleSubstitution ==
    (fn = "check" /\ prev.via = "corrupt") => ret = RetBool(FALSE)

C5_Witness ==
    /\ fn = "check" /\ prev.via = "corrupt" /\ prev.fn = "digit"
    /\ Len(prev.arg.s) = 2 /\ arg.s[1] # prev.arg.s[1]
    /\ Value(arg.s[1]) = (Value(prev.arg.s[1]) + 16) % 32
    /\ ret = RetBool(FALSE)

\* C6: with length omitted, encode(n) returns a code for every n >= 1,
\* decode(encode(n)) = n, and no other positive integer has the same code.
C6_CollisionFree ==
    /\ (fn = "encode" /\ ~arg.check_digit /\ arg.length = 0 /\ arg.n >= 1) =>
          /\ ret.kind = "str"
          /\ \A b \in 1..MaxN : b # arg.n => encode(b, 0, FALSE) # ret
    /\ (fn = "decode" /\ prev.via = "roundtrip" /\ ~prev.arg.check_digit
          /\ prev.arg.length = 0 /\ prev.arg.n >= 1) => ret = RetInt(prev.arg.n)

\* C7: writing one symbol of an accepted code in its other case, or a
\* look-alike (I, i, L, l for 1; O, o for 0) in its place, leaves decode's
\* result unchanged; every symbol of BW_MAP decodes to the bits of its
\* canonical symbol, and BW_MAP[FW_MAP[b]] = b for all 32 groups b.
C7_AliasInsensitive ==
    /\ (fn = "decode" /\ prev.via = "alias") => ret = prev.ret
    /\ \A x \in DOMAIN BW_MAP : BW_MAP[FW_MAP[BW_MAP[x]]] = BW_MAP[x]
    /\ \A b \in DOMAIN FW_MAP : BW_MAP[FW_MAP[b]] = b
    /\ (fn = "decode" /\ ~arg.check_digit /\ arg.s = <<"a","1","6","j">>) =>
          ret = RetInt(1234)

C7_Witness ==
    /\ fn = "decode" /\ prev.via = "alias" /\ ~arg.check_digit
    /\ prev.arg.s = <<"a","1","6","j">> /\ arg.s = <<"a","L","6","j">>
    /\ ret = RetInt(1234)

\* left-padding with 'A' to d symbols
RECURSIVE PadA(_, _)
PadA(code, d) == IF Len(code) >= d THEN code ELSE PadA(<<"A">> \o code, d)

\* C8: zero-value symbols ('A', 'a') put in front of an accepted code leave
\* decode's result unchanged, and for 0 <= v < 32^d, d >= 1, encode(v, d)
\* is encode(v, d') for the least fitting d' >= 1, left-padded with 'A' to
\* d symbols; encode(1, 4) = "AAA1" and decode("AAA1") = decode("1") = 1.
C8_Padding ==
    /\ (fn = "decode" /\ prev.via = "pad") => ret = prev.ret
    /\ (fn = "encode" /\ prev.via = "minimal" /\ ~arg.check_digit
          /\ Fits(prev.arg.n, prev.arg.length)) =>
          /\ ret.kind = "str"
          /\ arg.length <= prev.arg.length
          /\ prev.ret = RetStr(PadA(ret.s, prev.arg.length))
    /\ (fn = "encode" /\ ~arg.check_digit /\ arg.n = 1 /\ arg.length = 4) =>
          ret = RetStr(<<"A","A","A","1">>)

C8_Witness ==
    /\ fn = "decode" /\ prev.via = "pad" /\ ~arg.check_digit
    /\ prev.arg.s = <<"1">> /\ arg.s = <<"A","A","A","1">>
    /\ ret = RetInt(1)

\* C9: for a code c over the accepted alphabet and an accepted symbol s,
\* digit(c) returns a symbol, check(c + s) is true exactly when s has the
\* 5-bit value of digit(c), and decode(c + s, True) raises ChecksumError
\* when it has not and gives what decode(c) gives when it has.
C9_CheckAgreesWithDigit ==
    (fn = "check" /\ prev.via = "append") =>
        LET s == arg.s[Len(arg.s)]
        IN  /\ prev.ret.kind = "str"
            /\ ret = RetBool(BW_MAP[s] = BW_MAP[prev.ret.s[1]])
            /\ decode(arg.s, TRUE) =
                  IF BW_MAP[s] = BW_MAP[prev.ret.s[1]]
                  THEN decode(prev.arg.s, FALSE) ELSE Raise("ChecksumError")

\* the checksum total in integer arithmetic: symbols last to first, the
\* multiplier alternating from factor, each product p folded as
\* (p div 32) + (p mod 32)
RECURSIVE IntegerTotal(_, _)
IntegerTotal(code, factor) ==
    IF code = <<>> THEN 0
    ELSE LET p == factor * Value(code[Len(code)])
         IN  (p \div 32) + (p % 32)
             + IntegerTotal(SubSeq(code, 1, Len(code) - 1), 3 - factor)

\* C10: for a code over the accepted alphabet, digit returns the FW_MAP
\* symbol of (32 - (total mod 32)) mod 32 for the integer total with the
\* multipliers starting at 2, and check returns whether the integer total
\* with the multipliers starting at 1 is 0 mod 32.
C10_IntegerFold ==
    /\ (fn = "digit" /\ Accepted(arg.s)) =>
          /\ ret.kind = "str"
          /\ ret.s[1] \in CanonicalSymbols
          /\ Value(ret.s[1]) = (32 - (IntegerTotal(arg.s, 2) % 32)) % 32
    /\ (fn = "check" /\ Accepted(arg.s)) =>
          ret = RetBool(IntegerTotal(arg.s, 1) % 32 = 0)

====
